---- MODULE Spec2Model ----
(***************************************************************************)
(* OGLStreamBuffer (video_core/renderer_opengl/gl_stream_buffer.cpp): a    *)
(* ring buffer in GL buffer storage with a Map/Unmap (Reserve/Commit)      *)
(* protocol.  One buffer is constructed for every combination of the       *)
(* backend capability GLAD_GL_ARB_buffer_storage and the constructor       *)
(* argument prefer_coherent, and all of them are driven by the same        *)
(* sequence of calls, so that their results can be compared call by call.  *)
(*                                                                         *)
(* The GL backend is modelled at the level of the requests the code        *)
(* issues: every request is recorded, and a glMapBufferRange /             *)
(* glUnmapBuffer request is taken to be granted.                           *)
(***************************************************************************)
EXTENDS Integers, Sequences, FiniteSets

(***************************************************************************)
(* Bounds of the model.                                                    *)
(***************************************************************************)
\* Capacities 1..MaxCap are explored with every size and alignment.
MaxCap == 4

\* The capacity and the arguments of the worked example of the
\* specification (section 8), explored next to the small capacities.
ExampleCapacities == {1024}
ExampleSizes == {50, 100, 1000}
ExampleAlignments == {0, 16}

Capacities == (1..MaxCap) \cup ExampleCapacities

\* Arguments a caller may pass that satisfy ASSERT(size <= buffer_size),
\* ASSERT(alignment <= buffer_size) and 0 <= size.  alignment is signed
\* (GLintptr): -1 stands for the negative values.
SizesFor(cap) == IF cap \in 1..MaxCap THEN 0..cap ELSE ExampleSizes
AlignmentsFor(cap) == IF cap \in 1..MaxCap THEN (-1)..cap ELSE ExampleAlignments

\* Capacities explored with calls the protocol forbids (at most MaxCap).
MaxMisuseCap == 3

\* The Reserve/Commit pairs since construction that are recorded in seq.
MaxPairs == 3

\* Client addresses the backend may return for the start of a mapping.
Addrs == {4096, 8192}
NullPtr == 0

\* One buffer per (GLAD_GL_ARB_buffer_storage, prefer_coherent).
Modes == [arb : BOOLEAN, prefer : BOOLEAN]

(***************************************************************************)
(* GL requests and access flags.                                           *)
(***************************************************************************)
GL_MAP_WRITE_BIT == "GL_MAP_WRITE_BIT"
GL_MAP_PERSISTENT_BIT == "GL_MAP_PERSISTENT_BIT"
GL_MAP_COHERENT_BIT == "GL_MAP_COHERENT_BIT"
GL_MAP_FLUSH_EXPLICIT_BIT == "GL_MAP_FLUSH_EXPLICIT_BIT"
GL_MAP_INVALIDATE_BUFFER_BIT == "GL_MAP_INVALIDATE_BUFFER_BIT"
GL_MAP_UNSYNCHRONIZED_BIT == "GL_MAP_UNSYNCHRONIZED_BIT"

\* A request to the backend: the function, its offset and length arguments
\* and its flags (0 and {} where the function has none).
GlCall(fn, offset, length, access) ==
    [fn |-> fn, offset |-> offset, length |-> length, access |-> access]

glBufferStorage(size, flags) == GlCall("glBufferStorage", 0, size, flags)
glBufferData(size) == GlCall("glBufferData", 0, size, {})
glMapBufferRange(offset, length, access) == GlCall("glMapBufferRange", offset, length, access)
glUnmapBuffer == GlCall("glUnmapBuffer", 0, 0, {})
glFlushMappedBufferRange(offset, length) == GlCall("glFlushMappedBufferRange", offset, length, {})

\* The backend's view of the buffer: the size of its data store and its
\* current mapping (range, flags, client address of the first mapped byte).
NoMapping == [mapped |-> FALSE, offset |-> 0, length |-> 0, access |-> {}, addr |-> NullPtr]
Mapping(offset, length, access, addr) ==
    [mapped |-> TRUE, offset |-> offset, length |-> length, access |-> access, addr |-> addr]

(***************************************************************************)
(* The code.                                                               *)
(***************************************************************************)
\* Common::AlignUp (common/alignment.h): value rounded up to a multiple of size.
AlignUp(value, size) == value + ((size - (value % size)) % size)

Hack(size) == size * 2

\* The member initialisers of the class (gl_stream_buffer.h).
DefaultMembers ==
    [coherent |-> FALSE, persistent |-> FALSE, buffer_pos |-> 0, buffer_size |-> 0,
     mapped_offset |-> 0, mapped_size |-> 0, mapped_ptr |-> NullPtr]

\* A buffer with its backend state: obj (the members), gl (the mapping the
\* backend holds), store (bytes of the data store), calls (the requests of
\* the last operation, in order), ret (what the last Map returned) and
\* aborted (an ASSERT failed).
NoRet == [ptr |-> NullPtr, offset |-> 0, invalidate |-> FALSE]

\* The flags of the constructor's glBufferStorage (lines 24-25).
StorageFlags(coherent) ==
    {GL_MAP_WRITE_BIT, GL_MAP_PERSISTENT_BIT}
        \cup (IF coherent THEN {GL_MAP_COHERENT_BIT} ELSE {})

\* The flags of the constructor's glMapBufferRange (line 28).
InitialMapFlags(coherent) ==
    StorageFlags(coherent) \cup (IF coherent THEN {} ELSE {GL_MAP_FLUSH_EXPLICIT_BIT})

\* OGLStreamBuffer::OGLStreamBuffer(target, size, prefer_coherent); addr is
\* the address the backend returns for the persistent mapping.
Construct(arb_buffer_storage, size, prefer_coherent, addr) ==
    IF arb_buffer_storage
    THEN [obj |-> [DefaultMembers EXCEPT !.buffer_size = size,
                                         !.persistent = TRUE,
                                         !.coherent = prefer_coherent,
                                         !.mapped_ptr = addr],
          gl |-> Mapping(0, size, InitialMapFlags(prefer_coherent), addr),
          store |-> Hack(size),
          calls |-> << glBufferStorage(Hack(size), StorageFlags(prefer_coherent)),
                       glMapBufferRange(0, size, InitialMapFlags(prefer_coherent)) >>,
          ret |-> NoRet,
          aborted |-> FALSE]
    ELSE [obj |-> [DefaultMembers EXCEPT !.buffer_size = size],
          gl |-> NoMapping,
          store |-> Hack(size),
          calls |-> << glBufferData(Hack(size)) >>,
          ret |-> NoRet,
          aborted |-> FALSE]

\* OGLStreamBuffer::GetSize
GetSize(self) == self.obj.buffer_size

\* A failed ASSERT: the call ends there, with no effect, and the program with it.
Abort(self) == [self EXCEPT !.aborted = TRUE, !.calls = << >>]

\* Mutants of AlignedPos: rounding down instead of up; no alignment at all.
AlignedPosDown(buffer_pos, alignment) ==
    IF alignment > 0 THEN buffer_pos - (buffer_pos % alignment) ELSE buffer_pos

AlignedPosIgnored(buffer_pos, alignment) == buffer_pos

\* Map, lines 55-57: the cursor after alignment.
AlignedPos(buffer_pos, alignment) ==
    IF alignment > 0 THEN AlignUp(buffer_pos, alignment) ELSE buffer_pos

\* Mutants of Wraps: wrapping when the reservation ends exactly at the end of
\* the buffer; testing against the size of the data store.
WrapsAtEnd(buffer_pos, size, buffer_size) == buffer_pos + size >= buffer_size

WrapsAgainstStore(buffer_pos, size, buffer_size) == buffer_pos + size > Hack(buffer_size)

\* Map, line 60: the wraparound test.
Wraps(buffer_pos, size, buffer_size) == buffer_pos + size > buffer_size

\* Map, line 69: whether this call maps.
NeedsMap(invalidate, persistent) == invalidate \/ ~persistent

\* Mutant of MapFlags: no GL_MAP_UNSYNCHRONIZED_BIT on a call that does not wrap.
MapFlagsNoUnsynchronized(persistent, coherent, invalidate) ==
    {GL_MAP_WRITE_BIT}
        \cup (IF persistent THEN {GL_MAP_PERSISTENT_BIT} ELSE {})
        \cup (IF coherent THEN {GL_MAP_COHERENT_BIT} ELSE {GL_MAP_FLUSH_EXPLICIT_BIT})
        \cup (IF invalidate THEN {GL_MAP_INVALIDATE_BUFFER_BIT} ELSE {})

\* Map, lines 70-72: the flags of its glMapBufferRange.
MapFlags(persistent, coherent, invalidate) ==
    {GL_MAP_WRITE_BIT}
        \cup (IF persistent THEN {GL_MAP_PERSISTENT_BIT} ELSE {})
        \cup (IF coherent THEN {GL_MAP_COHERENT_BIT} ELSE {GL_MAP_FLUSH_EXPLICIT_BIT})
        \cup (IF invalidate THEN {GL_MAP_INVALIDATE_BUFFER_BIT} ELSE {GL_MAP_UNSYNCHRONIZED_BIT})

\* Mutant of MapRange: every call maps the whole buffer.
MapRangeWhole(buffer_pos, buffer_size) == << 0, buffer_size >>

\* Mutant of MapRange: the mapping extends to the end of the allocated storage.
MapRangeStore(buffer_pos, buffer_size) == << buffer_pos, Hack(buffer_size) - buffer_pos >>

\* Map, line 74: the range of its glMapBufferRange, <<offset, length>>.
MapRange(buffer_pos, buffer_size) == << buffer_pos, buffer_size - buffer_pos >>

\* Mutant of WrapUnmap: the persistent mapping is not released before the remap.
WrapUnmapMissing(invalidate, persistent) == << >>

\* Map, lines 64-66: the unmap of the persistent mapping on wraparound.
WrapUnmap(invalidate, persistent) ==
    IF invalidate /\ persistent THEN << glUnmapBuffer >> ELSE << >>

\* Mutant of ReturnedPtr: the start of the mapping is not subtracted.
ReturnedPtrFromBase(mapped_ptr, buffer_pos, mapped_offset) == mapped_ptr + buffer_pos

\* Map, line 78: the pointer returned.
ReturnedPtr(mapped_ptr, buffer_pos, mapped_offset) == mapped_ptr + buffer_pos - mapped_offset

\* OGLStreamBuffer::Map(size, alignment); addr is the address the backend
\* returns if the call maps.
Map(self, size, alignment, addr) ==
    IF ~(size <= self.obj.buffer_size) \/ ~(alignment <= self.obj.buffer_size)
    THEN Abort(self)
    ELSE
    LET o == self.obj
        aligned == AlignedPos(o.buffer_pos, alignment)
        invalidate == Wraps(aligned, size, o.buffer_size)
        buffer_pos == IF invalidate THEN 0 ELSE aligned
        unmaps == WrapUnmap(invalidate, o.persistent)
        gl1 == IF unmaps = << >> THEN self.gl ELSE NoMapping
        maps == NeedsMap(invalidate, o.persistent)
        flags == MapFlags(o.persistent, o.coherent, invalidate)
        range == MapRange(buffer_pos, o.buffer_size)
        mapped_ptr == IF maps THEN addr ELSE o.mapped_ptr
        mapped_offset == IF maps THEN buffer_pos ELSE o.mapped_offset
    IN  [self EXCEPT
            !.obj = [o EXCEPT !.mapped_size = size,
                              !.buffer_pos = buffer_pos,
                              !.mapped_ptr = mapped_ptr,
                              !.mapped_offset = mapped_offset],
            !.gl = IF maps THEN Mapping(range[1], range[2], flags, addr) ELSE gl1,
            !.calls = unmaps \o (IF maps
                                 THEN << glMapBufferRange(range[1], range[2], flags) >>
                                 ELSE << >>),
            !.ret = [ptr |-> ReturnedPtr(mapped_ptr, buffer_pos, mapped_offset),
                     offset |-> buffer_pos,
                     invalidate |-> invalidate]]

\* Mutant of Flush: the flush offset is the offset within the buffer, not
\* within the mapping.
FlushAbsolute(coherent, buffer_pos, mapped_offset, size) ==
    IF ~coherent THEN << glFlushMappedBufferRange(buffer_pos, size) >> ELSE << >>

\* Unmap, lines 84-86: the flush.
Flush(coherent, buffer_pos, mapped_offset, size) ==
    IF ~coherent THEN << glFlushMappedBufferRange(buffer_pos - mapped_offset, size) >> ELSE << >>

\* Mutant of CommitUnmap: the mapping is never released.
CommitUnmapMissing(persistent) == << >>

\* Unmap, lines 88-90: the unmap of a mapping that is not persistent.
CommitUnmap(persistent) == IF ~persistent THEN << glUnmapBuffer >> ELSE << >>

\* Mutant of Advance: the cursor stays where it was.
AdvanceNone(buffer_pos, size) == buffer_pos

\* Unmap, line 92: the cursor after the commit.
Advance(buffer_pos, size) == buffer_pos + size

\* Mutant of Unmap: the mapping is released before the flush.
UnmapBeforeFlush(self, size) ==
    IF ~(size <= self.obj.mapped_size)
    THEN Abort(self)
    ELSE
    LET o == self.obj
        unmaps == CommitUnmap(o.persistent)
    IN  [self EXCEPT
            !.obj = [o EXCEPT !.buffer_pos = Advance(o.buffer_pos, size)],
            !.gl = IF unmaps = << >> THEN self.gl ELSE NoMapping,
            !.calls = unmaps \o Flush(o.coherent, o.buffer_pos, o.mapped_offset, size)]

\* Mutant of Unmap: the ASSERT on the size is missing.
UnmapUnchecked(self, size) ==
    LET o == self.obj
        unmaps == CommitUnmap(o.persistent)
    IN  [self EXCEPT
            !.obj = [o EXCEPT !.buffer_pos = Advance(o.buffer_pos, size)],
            !.gl = IF unmaps = << >> THEN self.gl ELSE NoMapping,
            !.calls = Flush(o.coherent, o.buffer_pos, o.mapped_offset, size) \o unmaps]

\* Mutant of Unmap: the cursor advances by the reserved size, not the committed one.
UnmapAdvanceByReserved(self, size) ==
    IF ~(size <= self.obj.mapped_size)
    THEN Abort(self)
    ELSE
    LET o == self.obj
        unmaps == CommitUnmap(o.persistent)
    IN  [self EXCEPT
            !.obj = [o EXCEPT !.buffer_pos = Advance(o.buffer_pos, o.mapped_size)],
            !.gl = IF unmaps = << >> THEN self.gl ELSE NoMapping,
            !.calls = Flush(o.coherent, o.buffer_pos, o.mapped_offset, size) \o unmaps]

\* Mutant of Unmap: the cursor advances inside the if (!persistent) block.
UnmapAdvanceInFallbackOnly(self, size) ==
    IF ~(size <= self.obj.mapped_size)
    THEN Abort(self)
    ELSE
    LET o == self.obj
        unmaps == CommitUnmap(o.persistent)
    IN  [self EXCEPT
            !.obj = [o EXCEPT !.buffer_pos = IF ~o.persistent
                                             THEN Advance(o.buffer_pos, size)
                                             ELSE o.buffer_pos],
            !.gl = IF unmaps = << >> THEN self.gl ELSE NoMapping,
            !.calls = Flush(o.coherent, o.buffer_pos, o.mapped_offset, size) \o unmaps]

\* OGLStreamBuffer::Unmap(size)
Unmap(self, size) ==
    IF ~(size <= self.obj.mapped_size)
    THEN Abort(self)
    ELSE
    LET o == self.obj
        unmaps == CommitUnmap(o.persistent)
    IN  [self EXCEPT
            !.obj = [o EXCEPT !.buffer_pos = Advance(o.buffer_pos, size)],
            !.gl = IF unmaps = << >> THEN self.gl ELSE NoMapping,
            !.calls = Flush(o.coherent, o.buffer_pos, o.mapped_offset, size) \o unmaps]

\* gl_buffer.Release(), line 39: the buffer object and its data store are released.
Release == GlCall("Release", 0, 0, {})

\* OGLStreamBuffer::~OGLStreamBuffer.  The destructor unmaps only if
\* persistent; what it has not unmapped is still mapped when Release is called.
Destructor(self) ==
    LET unmaps == IF self.obj.persistent THEN << glUnmapBuffer >> ELSE << >>
    IN  [self EXCEPT
            !.gl = IF unmaps = << >> THEN self.gl ELSE NoMapping,
            !.store = 0,
            !.calls = unmaps \o << Release >>]

(***************************************************************************)
(* State.                                                                  *)
(***************************************************************************)
VARIABLES
    stream,     \* Modes -> buffer (obj, gl, store, calls, ret, aborted)
    before,     \* Modes -> Snapshot of the buffer before the last call
    call,       \* the last call: op, size, alignment, the protocol state it was issued in
    phase,      \* protocol state of the caller: "Idle", "Reserved" or "Destroyed"
    seq,        \* Modes -> the Reserve/Commit pairs since construction (see SeqReserve)
    script,     \* how many steps of the worked example the calls so far are (-1: not a prefix)
    inflight    \* Modes -> the end of the bytes the GPU may still be reading (see InFlightAfterUnmap)

vars == << stream, before, call, phase, seq, script, inflight >>

capacity == stream[CHOOSE m \in Modes : TRUE].obj.buffer_size

\* The worked example of section 8 of the specification.
Example ==
    << [op |-> "Reserve", size |-> 100, alignment |-> 0],
       [op |-> "Commit", size |-> 100, alignment |-> 0],
       [op |-> "Reserve", size |-> 1000, alignment |-> 0],
       [op |-> "Commit", size |-> 1000, alignment |-> 0],
       [op |-> "Reserve", size |-> 50, alignment |-> 16] >>

ScriptStep(op, size, alignment) ==
    IF script >= 0 /\ script < Len(Example)
       /\ Example[script + 1] = [op |-> op, size |-> size, alignment |-> alignment]
    THEN script + 1
    ELSE -1

\* The record of the first pairs since construction (at most MaxPairs), kept
\* while every Commit has committed the reserved size and the sizes sum to at
\* most the capacity: n (the number of Reserves), cum (the sum of the sizes),
\* last (the offset of the previous Reserve, -1 if none), ranges (the <<offset, size>> of the previous Reserves), nowrap
\* (no Reserve has wrapped), positive (every size was > 0).
SeqStart ==
    [on |-> TRUE, n |-> 0, cum |-> 0, last |-> -1, ranges |-> {},
     nowrap |-> TRUE, positive |-> TRUE]
SeqOff ==
    [on |-> FALSE, n |-> 0, cum |-> 0, last |-> -1, ranges |-> {},
     nowrap |-> FALSE, positive |-> FALSE]

SeqReserve(s, size, cap, invalidate) ==
    IF s.on /\ s.n < MaxPairs /\ s.cum + size <= cap
    THEN [s EXCEPT !.n = s.n + 1,
                   !.cum = s.cum + size,
                   !.nowrap = s.nowrap /\ ~invalidate,
                   !.positive = s.positive /\ size > 0]
    ELSE SeqOff

SeqCommit(s, reserved, offset, size) ==
    IF s.on /\ size = reserved
    THEN [s EXCEPT !.last = offset, !.ranges = s.ranges \cup {<< offset, reserved >>}]
    ELSE SeqOff

\* The GPU reads every committed range at some later time, so a range handed
\* over by Unmap stays in flight until a mapping with
\* GL_MAP_INVALIDATE_BUFFER_BIT discards the contents of the buffer.  What is
\* kept is the greatest end of the ranges in flight: every one of them lies in
\* [0, end).
InFlightAfterMap(end, invalidate) == IF invalidate THEN 0 ELSE end
InFlightAfterUnmap(end, buffer_pos, size) ==
    IF buffer_pos + size > end THEN buffer_pos + size ELSE end

\* What before keeps of a buffer: its cursor and the backend's mapping (the
\* range and the flags, not the address).
Snapshot(self) ==
    [buffer_pos |-> self.obj.buffer_pos, gl |-> [self.gl EXCEPT !.addr = NullPtr]]

NoneAborted == \A m \in Modes : ~stream[m].aborted

(***************************************************************************)
(* Initial state: the buffers after construction.                          *)
(***************************************************************************)
Init ==
    \E cap \in Capacities, addr \in Addrs :
        /\ stream = [m \in Modes |-> Construct(m.arb, cap, m.prefer, addr)]
        /\ before = [m \in Modes |-> Snapshot(stream[m])]
        /\ call = [op |-> "Construct", size |-> cap, alignment |-> 0, phase |-> "Idle"]
        /\ phase = "Idle"
        /\ seq = [m \in Modes |-> SeqStart]
        /\ script = 0
        /\ inflight = [m \in Modes |-> 0]

(***************************************************************************)
(* Calls.                                                                  *)
(***************************************************************************)
\* Map(size, alignment) on every buffer.
DoMap(size, alignment, addr) ==
    /\ stream' = [m \in Modes |-> Map(stream[m], size, alignment, addr)]
    /\ before' = [m \in Modes |-> Snapshot(stream[m])]
    /\ call' = [op |-> "Reserve", size |-> size, alignment |-> alignment, phase |-> phase]
    /\ phase' = "Reserved"
    /\ seq' = [m \in Modes |->
                 IF phase = "Idle" /\ ~stream'[m].aborted
                 THEN SeqReserve(seq[m], size, GetSize(stream[m]), stream'[m].ret.invalidate)
                 ELSE SeqOff]
    /\ script' = ScriptStep("Reserve", size, alignment)
    /\ inflight' = [m \in Modes |->
                      IF stream'[m].aborted
                      THEN inflight[m]
                      ELSE InFlightAfterMap(inflight[m], stream'[m].ret.invalidate)]

\* Unmap(size) on every buffer.
DoUnmap(size) ==
    /\ stream' = [m \in Modes |-> Unmap(stream[m], size)]
    /\ before' = [m \in Modes |-> Snapshot(stream[m])]
    /\ call' = [op |-> "Commit", size |-> size, alignment |-> 0, phase |-> phase]
    /\ phase' = "Idle"
    /\ seq' = [m \in Modes |->
                 IF phase = "Reserved" /\ ~stream'[m].aborted
                 THEN SeqCommit(seq[m], stream[m].obj.mapped_size, stream[m].ret.offset, size)
                 ELSE SeqOff]
    /\ script' = ScriptStep("Commit", size, 0)
    /\ inflight' = [m \in Modes |->
                      IF stream'[m].aborted
                      THEN inflight[m]
                      ELSE InFlightAfterUnmap(inflight[m], stream[m].obj.buffer_pos, size)]

\* A Reserve the protocol allows: from Idle, within the preconditions.
Reserve ==
    /\ phase = "Idle"
    /\ NoneAborted
    /\ \E size \in SizesFor(capacity), alignment \in AlignmentsFor(capacity), addr \in Addrs :
           DoMap(size, alignment, addr)

\* A Commit the protocol allows: from Reserved, of at most the reserved size.
Commit ==
    /\ phase = "Reserved"
    /\ NoneAborted
    /\ \E size \in {s \in SizesFor(capacity) : s <= call.size} :
           DoUnmap(size)

Next == Reserve \/ Commit

Spec == Init /\ [][Next]_vars

(***************************************************************************)
(* Calls the protocol forbids.  The code is the same; only the caller      *)
(* differs.                                                                *)
(***************************************************************************)
\* Map while a reservation is outstanding.
ReserveWhileReserved ==
    /\ phase = "Reserved"
    /\ NoneAborted
    /\ \E size \in SizesFor(capacity), alignment \in AlignmentsFor(capacity), addr \in Addrs :
           DoMap(size, alignment, addr)

\* A second Unmap after the Unmap of a reservation (the cursor still within
\* the buffer, which keeps the cursor of the model bounded).
CommitWhileIdle ==
    /\ phase = "Idle"
    /\ call.op = "Commit"
    /\ NoneAborted
    /\ \A m \in Modes : stream[m].obj.buffer_pos <= GetSize(stream[m])
    /\ \E size \in SizesFor(capacity) :
           DoUnmap(size)

\* Map with size or alignment one more than the capacity.
ReserveOversized ==
    /\ phase = "Idle"
    /\ NoneAborted
    /\ \E size \in {0, capacity + 1}, alignment \in {0, capacity + 1}, addr \in Addrs :
           /\ size + alignment > 0
           /\ DoMap(size, alignment, addr)

\* Unmap of more than was reserved.
CommitOversized ==
    /\ phase = "Reserved"
    /\ NoneAborted
    /\ DoUnmap(call.size + 1)

NextMisuse ==
    Next \/ ReserveWhileReserved \/ CommitWhileIdle \/ ReserveOversized \/ CommitOversized

\* The forbidden calls are explored on the capacities 1..MaxMisuseCap.
InitMisuse == Init /\ capacity \in 1..MaxMisuseCap

SpecMisuse == InitMisuse /\ [][NextMisuse]_vars

(***************************************************************************)
(* The lifetime of the buffer: the calls the protocol allows, ended by the *)
(* destructor, which may run in either protocol state.                     *)
(***************************************************************************)
Destroy ==
    /\ phase \in {"Idle", "Reserved"}
    /\ NoneAborted
    /\ stream' = [m \in Modes |-> Destructor(stream[m])]
    /\ before' = [m \in Modes |-> Snapshot(stream[m])]
    /\ call' = [op |-> "Destroy", size |-> 0, alignment |-> 0, phase |-> phase]
    /\ phase' = "Destroyed"
    /\ seq' = [m \in Modes |-> SeqOff]
    /\ script' = -1
    /\ UNCHANGED inflight

NextLifetime == Next \/ Destroy

SpecLifetime == Init /\ [][NextLifetime]_vars

(***************************************************************************)
(* Vocabulary of the properties.                                           *)
(***************************************************************************)
Persistent(m) == stream[m].obj.persistent
Coherent(m) == stream[m].obj.coherent

\* The last call was a Reserve the protocol allows / a Commit it allows.
Reserved == call.op = "Reserve" /\ call.phase = "Idle" /\ NoneAborted
Committed == call.op = "Commit" /\ call.phase = "Reserved" /\ NoneAborted

\* The least multiple of a (> 0) that is >= c.
NextMultiple(c, a) == CHOOSE k \in c..(c + a - 1) : k % a = 0

\* The byte ranges [o1, o1+s1) and [o2, o2+s2) share no byte.
Disjoint(o1, s1, o2, s2) == s1 = 0 \/ s2 = 0 \/ o1 + s1 <= o2 \/ o2 + s2 <= o1

\* The requests of the last operation on buffer m that call fn.
Requests(m, fn) ==
    LET c == stream[m].calls IN { i \in 1..Len(c) : c[i].fn = fn }

(***************************************************************************)
(* C1: a Reserve(size, alignment) issued from Idle with 0 <= size <=       *)
(* capacity and alignment <= capacity, with c the cursor rounded up to the *)
(* next multiple of alignment (the cursor itself if alignment <= 0), wraps *)
(* iff c + size > capacity; it then returns offset 0 and didInvalidate     *)
(* true, and otherwise offset c and didInvalidate false.  With capacity    *)
(* 1024, Reserve(100,0)/Commit(100), Reserve(1000,0)/Commit(1000),         *)
(* Reserve(50,16) return (0,false), (0,true), (0,true).                    *)
(***************************************************************************)
C1_Expected(m) ==
    LET c == IF call.alignment > 0
             THEN NextMultiple(before[m].buffer_pos, call.alignment)
             ELSE before[m].buffer_pos
        wraps == c + call.size > capacity
    IN  [offset |-> IF wraps THEN 0 ELSE c, invalidate |-> wraps]

C1_Returned(m) ==
    [offset |-> stream[m].ret.offset, invalidate |-> stream[m].ret.invalidate]

C1_WrapRule ==
    /\ (Reserved /\ 0 <= call.size /\ call.size <= capacity /\ call.alignment <= capacity)
          => \A m \in Modes : C1_Returned(m) = C1_Expected(m)
    /\ (capacity = 1024 /\ script \in {1, 2})
          => \A m \in Modes : C1_Returned(m) = [offset |-> 0, invalidate |-> FALSE]
    /\ (capacity = 1024 /\ script \in {3, 4})
          => \A m \in Modes : C1_Returned(m) = [offset |-> 0, invalidate |-> TRUE]
    /\ (capacity = 1024 /\ script = 5)
          => \A m \in Modes : C1_Returned(m) = [offset |-> 0, invalidate |-> TRUE]

\* The worked example has run to its last Reserve, which wrapped because of
\* the alignment padding (1008 + 50 > 1024).
C1_Witness ==
    /\ capacity = 1024
    /\ script = 5
    /\ Reserved
    /\ \A m \in Modes : before[m].buffer_pos = 1000 /\ stream[m].ret.invalidate

(***************************************************************************)
(* C2 (as stated): over Reserve(size, alignment)/Commit(size) pairs whose  *)
(* sizes sum to at most the capacity, the returned offsets strictly        *)
(* increase from call to call and the reserved ranges are pairwise         *)
(* disjoint.                                                               *)
(***************************************************************************)
C2_Increasing(m) ==
    /\ stream[m].ret.offset > seq[m].last
    /\ \A r \in seq[m].ranges : Disjoint(r[1], r[2], stream[m].ret.offset, call.size)

C2_AsStated ==
    \A m \in Modes : (Reserved /\ seq[m].on) => C2_Increasing(m)

(***************************************************************************)
(* C2 (amended): over Reserve(size, alignment)/Commit(size) pairs with     *)
(* every size > 0 and in which no Reserve wraps (the sizes together with   *)
(* the alignment padding sum to at most the capacity), the returned        *)
(* offsets strictly increase and the reserved ranges are pairwise          *)
(* disjoint.                                                               *)
(***************************************************************************)
C2_NoOverlapUntilWrap ==
    \A m \in Modes :
        (Reserved /\ seq[m].on /\ seq[m].nowrap /\ seq[m].positive) => C2_Increasing(m)

\* A third Reserve of such a sequence, returned above the cursor because of
\* its alignment.
C2_Witness ==
    \E m \in Modes :
        /\ Reserved /\ seq[m].on /\ seq[m].nowrap /\ seq[m].positive
        /\ seq[m].n = 3
        /\ stream[m].ret.offset > before[m].buffer_pos

(***************************************************************************)
(* C3: driven by the same calls, the buffers of every mode (persistent or  *)
(* fallback, either coherence preference) return the same offset and       *)
(* didInvalidate and have the same cursor after every call.                *)
(***************************************************************************)
C3_ModeIndependent ==
    \A m1, m2 \in Modes :
        /\ stream[m1].obj.buffer_pos = stream[m2].obj.buffer_pos
        /\ stream[m1].ret.offset = stream[m2].ret.offset
        /\ stream[m1].ret.invalidate = stream[m2].ret.invalidate

\* After a Commit that follows a wrapping Reserve, where the persistent and
\* the fallback buffer issued different requests.
C3_Witness ==
    /\ Committed
    /\ call.size > 0
    /\ \A m \in Modes : stream[m].ret.invalidate /\ stream[m].obj.buffer_pos = call.size
    /\ \E m1, m2 \in Modes :
          Persistent(m1) /\ ~Persistent(m2) /\ stream[m1].calls # stream[m2].calls

(***************************************************************************)
(* C4: a Reserve issued while a reservation is outstanding is rejected as  *)
(* a fatal contract violation: it returns no new offset, does not move the *)
(* cursor and issues no mapping request.                                   *)
(***************************************************************************)
C4_SecondReserveRejected ==
    (call.op = "Reserve" /\ call.phase = "Reserved")
        => \A m \in Modes :
              /\ stream[m].aborted
              /\ stream[m].obj.buffer_pos = before[m].buffer_pos
              /\ stream[m].calls = << >>

(***************************************************************************)
(* C5: a Commit issued from Idle (before any Reserve, or a second Commit   *)
(* after a matched pair) is rejected as a fatal contract violation: it     *)
(* does not flush, unmap or advance the cursor.                            *)
(***************************************************************************)
C5_CommitFromIdleRejected ==
    (call.op = "Commit" /\ call.phase = "Idle")
        => \A m \in Modes :
              /\ stream[m].aborted
              /\ stream[m].obj.buffer_pos = before[m].buffer_pos
              /\ stream[m].calls = << >>

(***************************************************************************)
(* C6: on Commit(size) of the reservation returned at offset, a flush is   *)
(* issued iff the buffer is not coherent, and it covers exactly the bytes  *)
(* [offset, offset + size) of the buffer: the start of the mapping that is *)
(* current at the Commit plus the flush offset is offset, and the flush    *)
(* length is size.                                                         *)
(***************************************************************************)
C6_FlushExact ==
    Committed =>
        \A m \in Modes :
            LET flushes == Requests(m, "glFlushMappedBufferRange") IN
            /\ Coherent(m) => flushes = {}
            /\ ~Coherent(m) =>
                  /\ flushes = {1}
                  /\ before[m].gl.mapped
                  /\ before[m].gl.offset + stream[m].calls[1].offset = stream[m].ret.offset
                  /\ stream[m].calls[1].length = call.size

\* The first Commit after a wraparound, and a Commit at a nonzero offset are
\* both flushed; the witness is the former, on the persistent buffer that
\* flushes, next to a fallback buffer.
C6_Witness ==
    /\ Committed
    /\ call.size > 0
    /\ \E m \in Modes :
          /\ Persistent(m) /\ ~Coherent(m)
          /\ stream[m].ret.invalidate
          /\ Requests(m, "glFlushMappedBufferRange") # {}
    /\ \E m \in Modes : Persistent(m) /\ Coherent(m) /\ stream[m].calls = << >>

(***************************************************************************)
(* C7: a Reserve(size, alignment) with alignment > 0 within the            *)
(* preconditions returns an offset that is a multiple of alignment, with   *)
(* offset + size <= capacity.                                              *)
(***************************************************************************)
C7_AlignedOffset ==
    (Reserved /\ call.alignment > 0) =>
        \A m \in Modes :
            /\ stream[m].ret.offset % call.alignment = 0
            /\ stream[m].ret.offset + call.size <= capacity

\* A Reserve that had to skip padding and did not wrap.
C7_Witness ==
    /\ Reserved
    /\ call.alignment > 1
    /\ \A m \in Modes :
          /\ before[m].buffer_pos % call.alignment # 0
          /\ stream[m].ret.offset > before[m].buffer_pos
          /\ ~stream[m].ret.invalidate

(***************************************************************************)
(* C8: between the calls of an alternating Reserve/Commit sequence within  *)
(* the preconditions, 0 <= cursor <= capacity, and every call but a        *)
(* wrapping Reserve leaves the cursor where it was or above.               *)
(***************************************************************************)
C8_CursorInRange ==
    \A m \in Modes :
        /\ 0 <= stream[m].obj.buffer_pos
        /\ stream[m].obj.buffer_pos <= capacity
        /\ ~(call.op = "Reserve" /\ stream[m].ret.invalidate)
              => stream[m].obj.buffer_pos >= before[m].buffer_pos

\* A Commit that moved the cursor from inside the buffer to its very end.
C8_Witness ==
    /\ Committed
    /\ \A m \in Modes :
          /\ stream[m].obj.buffer_pos = capacity
          /\ before[m].buffer_pos > 0
          /\ before[m].buffer_pos < capacity

(***************************************************************************)
(* C9: in persistent mode a Reserve that does not wrap issues no request   *)
(* and leaves the mapping as it was; a Reserve that wraps unmaps and then  *)
(* issues exactly one mapping request, for [0, capacity), with the         *)
(* invalidate flag and the persistent flag.                                *)
(***************************************************************************)
C9_PersistentRemap ==
    Reserved =>
        \A m \in Modes : Persistent(m) =>
            LET c == stream[m].calls IN
            /\ ~stream[m].ret.invalidate =>
                  /\ c = << >>
                  /\ [stream[m].gl EXCEPT !.addr = NullPtr] = before[m].gl
                  /\ stream[m].gl.mapped
            /\ stream[m].ret.invalidate =>
                  /\ Len(c) = 2
                  /\ c[1] = glUnmapBuffer
                  /\ c[2].fn = "glMapBufferRange"
                  /\ c[2].offset = 0
                  /\ c[2].length = capacity
                  /\ GL_MAP_INVALIDATE_BUFFER_BIT \in c[2].access
                  /\ GL_MAP_PERSISTENT_BIT \in c[2].access

\* A wrapping Reserve on a persistent buffer whose cursor was not at 0.
C9_Witness ==
    /\ Reserved
    /\ \E m \in Modes :
          /\ Persistent(m)
          /\ stream[m].ret.invalidate
          /\ before[m].buffer_pos > 0
          /\ Len(stream[m].calls) = 2

(***************************************************************************)
(* C10: in fallback mode every Reserve issues exactly one mapping request, *)
(* for [offset, capacity) with offset the offset it returns, flagged       *)
(* invalidate-buffer iff the call wrapped and unsynchronized iff it did    *)
(* not; and no mapping request of a Reserve, in either mode, carries       *)
(* neither flag.                                                           *)
(***************************************************************************)
C10_FallbackMapsEveryCall ==
    Reserved =>
        \A m \in Modes :
            LET c == stream[m].calls IN
            /\ ~Persistent(m) =>
                  /\ Len(c) = 1
                  /\ c[1].fn = "glMapBufferRange"
                  /\ c[1].offset = stream[m].ret.offset
                  /\ c[1].offset + c[1].length = capacity
                  /\ (GL_MAP_INVALIDATE_BUFFER_BIT \in c[1].access) = stream[m].ret.invalidate
                  /\ (GL_MAP_UNSYNCHRONIZED_BIT \in c[1].access) = ~stream[m].ret.invalidate
            /\ \A i \in Requests(m, "glMapBufferRange") :
                  \/ GL_MAP_INVALIDATE_BUFFER_BIT \in c[i].access
                  \/ GL_MAP_UNSYNCHRONIZED_BIT \in c[i].access

\* A fallback Reserve that did not wrap and was returned a nonzero offset.
C10_Witness ==
    /\ Reserved
    /\ \E m \in Modes :
          /\ ~Persistent(m)
          /\ ~stream[m].ret.invalidate
          /\ stream[m].ret.offset > 0
          /\ call.size > 0

(***************************************************************************)
(* C11: a Commit(size) of the reservation returned at offset leaves the    *)
(* cursor at offset + size, size being the committed size; and the next    *)
(* Reserve with alignment 0 that does not wrap returns that offset + size. *)
(***************************************************************************)
C11_CommitStep ==
    (call'.op = "Commit" /\ phase = "Reserved" /\ \A m \in Modes : ~stream'[m].aborted)
        => \A m \in Modes :
              stream'[m].obj.buffer_pos = stream[m].ret.offset + call'.size

C11_NextReserveStep ==
    (/\ call'.op = "Reserve" /\ phase = "Idle" /\ call'.alignment = 0
     /\ call.op = "Commit" /\ call.phase = "Reserved")
        => \A m \in Modes :
              ~stream'[m].ret.invalidate
                  => stream'[m].ret.offset = stream[m].ret.offset + call.size

C11_CursorAfterCommit == [][C11_CommitStep /\ C11_NextReserveStep]_vars

\* A partial Commit of a reservation that was returned above offset 0.
C11_Witness ==
    /\ Committed
    /\ call.size > 0
    /\ \A m \in Modes :
          /\ call.size < stream[m].obj.mapped_size
          /\ stream[m].ret.offset > 0
          /\ stream[m].obj.buffer_pos < capacity

(***************************************************************************)
(* C12: an oversized request is a fatal contract violation detected before *)
(* any effect.  A Reserve with size > capacity or alignment > capacity     *)
(* changes neither the cursor, the recorded reservation nor the mapping    *)
(* and issues no request; a Commit of more than the active reservation     *)
(* issues no flush or unmap and does not advance the cursor.               *)
(***************************************************************************)
C12_NoEffect(m) ==
    /\ stream'[m].aborted
    /\ stream'[m].obj = stream[m].obj
    /\ stream'[m].gl = stream[m].gl
    /\ stream'[m].calls = << >>

C12_ReserveStep ==
    (call'.op = "Reserve" /\ (call'.size > capacity \/ call'.alignment > capacity))
        => \A m \in Modes : C12_NoEffect(m)

C12_CommitStep ==
    \A m \in Modes :
        (call'.op = "Commit" /\ phase = "Reserved" /\ call'.size > stream[m].obj.mapped_size)
            => C12_NoEffect(m)

C12_OversizedRejected == [][C12_ReserveStep /\ C12_CommitStep]_vars

\* A Commit of one byte more than was reserved, rejected with the cursor
\* inside the buffer and the fallback buffer still mapped.
C12_Witness ==
    /\ call.op = "Commit"
    /\ call.phase = "Reserved"
    /\ \A m \in Modes :
          /\ stream[m].aborted
          /\ call.size > stream[m].obj.mapped_size
          /\ stream[m].obj.mapped_size > 0
          /\ stream[m].obj.buffer_pos > 0
          /\ stream[m].gl.mapped

(***************************************************************************)
(* C13: at most one mapping of the buffer is alive at any time.  In        *)
(* persistent mode exactly one is alive between calls, and on a wrap the   *)
(* old one is released before the new one is requested; in fallback mode   *)
(* a mapping is alive iff a reservation is outstanding.                    *)
(***************************************************************************)
\* The mappings of buffer m alive after the first i requests of the last
\* operation: those alive before it, plus the maps, minus the unmaps.
C13_Live(m, i) ==
    LET c == stream[m].calls
        n0 == IF call.op # "Construct" /\ before[m].gl.mapped THEN 1 ELSE 0
    IN  n0 + Cardinality({ j \in 1..i : c[j].fn = "glMapBufferRange" })
           - Cardinality({ j \in 1..i : c[j].fn = "glUnmapBuffer" })

C13_OneMapping ==
    \A m \in Modes :
        /\ \A i \in 0..Len(stream[m].calls) : C13_Live(m, i) \in {0, 1}
        /\ stream[m].gl.mapped = (C13_Live(m, Len(stream[m].calls)) = 1)
        /\ Persistent(m) => stream[m].gl.mapped
        /\ ~Persistent(m) => (stream[m].gl.mapped = (phase = "Reserved"))

\* A wrapping Reserve: the persistent buffer went through no mapping to its
\* new one, and the fallback buffer is mapped.
C13_Witness ==
    /\ Reserved
    /\ \E m \in Modes :
          /\ Persistent(m)
          /\ stream[m].ret.invalidate
          /\ Len(stream[m].calls) = 2
          /\ C13_Live(m, 1) = 0
          /\ C13_Live(m, 2) = 1
    /\ \E m \in Modes : ~Persistent(m) /\ stream[m].gl.mapped

(***************************************************************************)
(* C14: with the GPU reading every committed range at some later time, a   *)
(* range [offset, offset+size) returned by a Reserve that does not wrap    *)
(* shares no byte with any range committed since the last wraparound (or   *)
(* since construction): it starts at or after the end of all of them.      *)
(***************************************************************************)
C14_NoReuseBeforeWrap ==
    Reserved =>
        \A m \in Modes :
            ~stream[m].ret.invalidate
                => Disjoint(0, inflight[m], stream[m].ret.offset, call.size)

\* A Reserve of at least one byte that does not wrap, with bytes in flight.
C14_Witness ==
    /\ Reserved
    /\ call.size > 0
    /\ \A m \in Modes : ~stream[m].ret.invalidate /\ inflight[m] > 0

(***************************************************************************)
(* C15: when a Reserve in fallback mode maps with                          *)
(* GL_MAP_UNSYNCHRONIZED_BIT, the mapped range is [offset, capacity) and   *)
(* it lies at or above the end of every range committed since the last     *)
(* discarding mapping.                                                     *)
(***************************************************************************)
C15_UnsynchronizedMaps(m) ==
    { i \in Requests(m, "glMapBufferRange") :
          GL_MAP_UNSYNCHRONIZED_BIT \in stream[m].calls[i].access }

C15_UnsynchronizedIsSafe ==
    Reserved =>
        \A m \in Modes :
            ~Persistent(m) =>
                \A i \in C15_UnsynchronizedMaps(m) :
                    LET c == stream[m].calls[i]
                    IN  /\ c.offset = stream[m].ret.offset
                        /\ c.offset + c.length = capacity
                        /\ c.offset >= inflight[m]

\* An unsynchronized mapping after an alignment gap, with bytes in flight,
\* whose mapped range is larger than the reserved one.
C15_Witness ==
    /\ Reserved
    /\ call.alignment > 0
    /\ \E m \in Modes :
          /\ ~Persistent(m)
          /\ C15_UnsynchronizedMaps(m) # {}
          /\ inflight[m] > 0
          /\ stream[m].ret.offset > inflight[m]
          /\ stream[m].ret.offset + call.size < capacity

(***************************************************************************)
(* C16: in fallback mode every Commit releases the mapping its Reserve     *)
(* created, and does so after the flush of the committed range, which is   *)
(* issued while the mapping is alive; in persistent mode Commit never      *)
(* unmaps.                                                                 *)
(***************************************************************************)
C16_FallbackCommit(m) ==
    LET c == stream[m].calls
        flushes == Requests(m, "glFlushMappedBufferRange")
    IN  /\ before[m].gl.mapped
        /\ before[m].gl.offset = stream[m].ret.offset
        /\ before[m].gl.length = capacity - stream[m].ret.offset
        /\ Requests(m, "glUnmapBuffer") = {Len(c)}
        /\ ~stream[m].gl.mapped
        /\ ~Coherent(m) => flushes # {}
        /\ \A i \in flushes :
              /\ i < Len(c)
              /\ C13_Live(m, i - 1) = 1
              /\ C13_Live(m, i) = 1

C16_PersistentCommit(m) ==
    /\ Requests(m, "glUnmapBuffer") = {}
    /\ stream[m].gl.mapped
    /\ Snapshot(stream[m]).gl = before[m].gl

C16_CommitReleases ==
    Committed =>
        \A m \in Modes :
            IF Persistent(m) THEN C16_PersistentCommit(m) ELSE C16_FallbackCommit(m)

\* A Commit of at least one byte that flushed and then unmapped in fallback
\* mode and only flushed in a persistent mode.
C16_Witness ==
    /\ Committed
    /\ call.size > 0
    /\ \E m \in Modes :
          /\ ~Persistent(m)
          /\ Len(stream[m].calls) = 2
          /\ stream[m].calls[1].fn = "glFlushMappedBufferRange"
          /\ stream[m].calls[2].fn = "glUnmapBuffer"
    /\ \E m \in Modes :
          /\ Persistent(m)
          /\ Len(stream[m].calls) = 1
          /\ stream[m].calls[1].fn = "glFlushMappedBufferRange"

(***************************************************************************)
(* C17: the pointer returned by Reserve addresses byte offset of the       *)
(* buffer: it is the base of the current mapping plus (offset - start of   *)
(* the mapping), the mapping starting at 0 in persistent mode and at       *)
(* offset in fallback mode, and [offset, offset+size) lies inside the      *)
(* mapped range.                                                           *)
(***************************************************************************)
C17_PointerAtOffset ==
    Reserved =>
        \A m \in Modes :
            LET gl == stream[m].gl
                ret == stream[m].ret
            IN  /\ gl.mapped
                /\ ret.ptr = gl.addr + (ret.offset - gl.offset)
                /\ gl.offset = (IF Persistent(m) THEN 0 ELSE ret.offset)
                /\ gl.offset <= ret.offset
                /\ ret.offset + call.size <= gl.offset + gl.length

\* A Reserve of at least one byte at an offset above 0, in a persistent mode
\* (mapping from 0) and in a fallback mode (mapping from the offset).
C17_Witness ==
    /\ Reserved
    /\ call.size > 0
    /\ \E m \in Modes :
          Persistent(m) /\ stream[m].ret.offset > 0 /\ stream[m].gl.offset = 0
    /\ \E m \in Modes :
          ~Persistent(m) /\ stream[m].ret.offset > 0 /\ stream[m].gl.offset > 0

(***************************************************************************)
(* C18: the data store is allocated at twice the capacity, yet every       *)
(* mapping requested at construction or by Reserve and every flush issued  *)
(* by Commit lies within [0, capacity), the cursor never passes capacity,  *)
(* and GetSize() stays the capacity given at construction.                 *)
(***************************************************************************)
\* The range of request i of the last operation on m, in bytes of the
\* buffer: a flush is relative to the start of the mapping it flushes.
C18_AbsoluteOffset(m, i) ==
    LET c == stream[m].calls[i]
    IN  IF c.fn = "glFlushMappedBufferRange" THEN before[m].gl.offset + c.offset ELSE c.offset

C18_SlackUntouched ==
    \A m \in Modes :
        /\ stream[m].store = Hack(GetSize(stream[m]))
        /\ stream[m].obj.buffer_pos <= GetSize(stream[m])
        /\ \A i \in Requests(m, "glMapBufferRange") \cup Requests(m, "glFlushMappedBufferRange") :
              /\ 0 <= C18_AbsoluteOffset(m, i)
              /\ stream[m].calls[i].length >= 0
              /\ C18_AbsoluteOffset(m, i) + stream[m].calls[i].length <= GetSize(stream[m])

\* A Commit whose flush, from an offset above 0, ends at the last byte of
\* the capacity, below the end of the store.
C18_Witness ==
    /\ Committed
    /\ call.size > 0
    /\ \E m \in Modes :
          \E i \in Requests(m, "glFlushMappedBufferRange") :
              /\ C18_AbsoluteOffset(m, i) > 0
              /\ C18_AbsoluteOffset(m, i) + stream[m].calls[i].length = GetSize(stream[m])
              /\ stream[m].store > GetSize(stream[m])

(***************************************************************************)
(* C19: when the buffer is destroyed, a mapping that is alive at that      *)
(* moment (the persistent mapping, or in fallback mode the mapping of a    *)
(* Reserve not yet committed) is unmapped before the storage is released.  *)
(***************************************************************************)
C19_UnmappedFirst(m) ==
    before[m].gl.mapped =>
        \E i \in Requests(m, "glUnmapBuffer") :
            \A j \in Requests(m, "Release") : i < j

C19_UnmappedBeforeRelease ==
    call.op = "Destroy" => \A m \in Modes : C19_UnmappedFirst(m)

====
